---- MODULE Spec2Model ----
(***************************************************************************)
(* Model of cursor-auto-icloud: the machine identity store                 *)
(* (src/auth/reset_machine.py), the credential persister                   *)
(* (src/auth/cursor_auth_manager.py), the mailbox poller                   *)
(* (src/utils/get_email_code.py) and the provisioning run                  *)
(* (src/core/cursor_pro_keep_alive.py).                                    *)
(*                                                                         *)
(* Each component has its own specification over the shared variables:     *)
(*   SpecIdentity  MachineIDResetter.reset_machine_ids, step by step       *)
(*   SpecAuth      CursorAuthManager.update_auth, call by call             *)
(*   SpecPoll      EmailVerificationHandler.get_verification_code          *)
(*   SpecRun       main / sign_up_account / handle_turnstile               *)
(***************************************************************************)
EXTENDS Integers, Sequences, FiniteSets, TLC

VARIABLES
    runs,       \* ids of the resetter invocations of this behaviour (never changes)
    file,       \* storage.json on disk
    file0,      \* storage.json as it was when the behaviour started
    rm,         \* per invocation: the frame of reset_machine_ids
    db,         \* itemTable of state.vscdb: the committed rows, in rowid order
    db0,        \* itemTable as it was when the last update_auth call started
    last,       \* the last update_auth call: its batch, progress and result
    calls,      \* update_auth calls made so far
    okEmails,   \* the email arguments of the calls that returned True
    mailbox,    \* the messages of the IMAP folder, oldest first
    delivered,  \* messages that arrived while the poller ran
    gv,         \* the frame of get_verification_code
    im,         \* the frames of _get_mail_code_by_icloud_imap (the recursion)
    mn,         \* the frame of main
    su,         \* the frame of sign_up_account
    ts,         \* the frame of handle_turnstile
    log,        \* accounts.csv
    emails,     \* the local list of addresses, emails.txt
    eg          \* per run: the frame of EmailGenerator.generate_email

identityVars == <<runs, file, file0, rm>>
authVars == <<db, db0, last, calls, okEmails>>
pollVars == <<mailbox, delivered, gv, im>>
runVars == <<mn, su, ts, log>>
emailVars == <<emails, eg>>
vars == <<identityVars, authVars, pollVars, runVars, emailVars>>

----------------------------------------------------------------------------
(* Bounds of the model                                                     *)

\* longest storage.json (in key/value entries) an initial state holds
MaxEntries == 2

\* most rows an initial itemTable holds
MaxRows == 2

\* most update_auth calls of one behaviour
MaxCalls == 2

\* most messages an initial mailbox holds
MaxMsgs == 1

\* most messages that arrive while the poller runs
MaxDeliver == 1

\* most messages of a mailbox whose scan order is checked
MaxScanMsgs == 11

\* most iterations of the verification loop of sign_up_account
MaxLoop == 2

\* largest max_retries handle_turnstile is called with on its own
MaxTsRetries == 4

\* most lines an initial emails.txt holds
MaxEmails == 3

----------------------------------------------------------------------------
(* Machine identity store: src/auth/reset_machine.py                       *)

\* the keys of the dict generate_new_ids returns, in its order
IdentityKeySeq ==
    << "telemetry.devDeviceId", "telemetry.macMachineId",
       "telemetry.machineId", "telemetry.sqmId" >>

IdentityKeys == { IdentityKeySeq[i] : i \in 1..Len(IdentityKeySeq) }

\* keys of storage.json that belong to the application, not to the resetter
OtherKeys == { "storage.serviceMachineId", "backupWorkspaces" }

FileKeys == IdentityKeys \cup OtherKeys

\* values: what the file may hold before, and what the random source may draw
OldValues == { "old" }
FreshValues == { "new1", "new2" }
FileValues == OldValues \cup { "new1" }

None == "None"

Range(s) == { s[i] : i \in 1..Len(s) }

KeysOf(entries) == { entries[i].k : i \in 1..Len(entries) }

HasKey(entries, key) == key \in KeysOf(entries)

\* dict lookup: the value stored under key (None when absent)
ValueOf(entries, key) ==
    IF HasKey(entries, key)
    THEN (CHOOSE e \in Range(entries) : e.k = key).v
    ELSE None

\* the text of a JSON object: its entries in order, whether the object is
\* closed (a complete document), and the indentation it was written with;
\* object is FALSE for a document of another type, such as [] or null
FileText(entries, closed, indent) ==
    [entries |-> entries, closed |-> closed, indent |-> indent, object |-> TRUE]

NoFile ==
    [exists |-> FALSE, readable |-> FALSE, writable |-> FALSE,
     text |-> FileText(<<>>, FALSE, 0)]

\* os.path.exists and os.access(R_OK | W_OK)
FileUsableExistsOnly(f) == f.exists

FileUsable(f) == f.exists /\ f.readable /\ f.writable

\* json.load: a complete document parses to its dict, anything else raises
\* what a write beyond the end of the file leaves before it, and what a
\* write into the middle of another document leaves there
Hole == [k |-> "NUL", v |-> "NUL"]

json_load_ok(text) == text.closed /\ Hole \notin Range(text.entries)

\* file.write at the writer's own offset: the piece with number pos is
\* appended, overwrites what another writer put there, or lands beyond the
\* end of a file that was truncated meanwhile
write_at(entries, pos, piece) ==
    IF pos <= Len(entries) THEN [entries EXCEPT ![pos] = piece]
    ELSE [j \in 1..pos |->
            IF j <= Len(entries) THEN entries[j]
            ELSE IF j = pos THEN piece ELSE Hole]

json_load(text) == text.entries

\* dict.update for one key: overwrite in place, or append
dict_set(cfg, key, val) ==
    IF HasKey(cfg, key)
    THEN [i \in 1..Len(cfg) |->
            IF cfg[i].k = key THEN [k |-> key, v |-> val] ELSE cfg[i]]
    ELSE Append(cfg, [k |-> key, v |-> val])

RECURSIVE dict_update_from(_, _, _)
dict_update_from(cfg, ids, i) ==
    IF i > Len(IdentityKeySeq) THEN cfg
    ELSE dict_update_from(dict_set(cfg, IdentityKeySeq[i], ids[IdentityKeySeq[i]]),
                          ids, i + 1)

\* a resetter that writes only the new ids back
config_update_replace(cfg, ids) == dict_update_from(<<>>, ids, 1)

\* config.update(new_ids)
config_update(cfg, ids) == dict_update_from(cfg, ids, 1)

\* generate_new_ids: four independent draws from the random source
generate_new_ids_set == [IdentityKeys -> FreshValues]

ResetFrame(pc) ==
    [pc |-> pc, config |-> <<>>, is_dict |-> TRUE, generated |-> FALSE,
     new_ids |-> [k \in IdentityKeys |-> None], read_ok |-> FALSE,
     written |-> 0, ret |-> None]

\* the files the program may find
EntrySet == [k : FileKeys, v : FileValues]

EntrySeqs ==
    { s \in UNION { [1..n -> EntrySet] : n \in 0..MaxEntries } :
        \A i, j \in 1..Len(s) : i # j => s[i].k # s[j].k }

InitFiles ==
    { NoFile }
    \cup { [exists |-> TRUE, readable |-> r, writable |-> w,
            text |-> FileText(s, c, i)] :
            r \in BOOLEAN, w \in BOOLEAN, s \in EntrySeqs,
            c \in BOOLEAN, i \in {0, 4} }
    \cup { [exists |-> TRUE, readable |-> r, writable |-> w,
            text |-> [FileText(<<>>, TRUE, 0) EXCEPT !.object = FALSE]] :
            r \in BOOLEAN, w \in BOOLEAN }

InitIdentity ==
    /\ runs = {1}
    /\ file \in InitFiles
    /\ file0 = file
    /\ rm = [r \in runs |-> ResetFrame("check")]

Return(r, value) == rm' = [rm EXCEPT ![r].pc = "done", ![r].ret = value]

\* lines 82-97: the file must exist and be readable and writable
ResetCheck ==
    \E r \in runs :
    /\ rm[r].pc = "check"
    /\ IF FileUsable(file)
       THEN rm' = [rm EXCEPT ![r].pc = "read"]
       ELSE Return(r, "False")
    /\ UNCHANGED <<runs, file, file0, authVars, pollVars, runVars, emailVars>>

\* lines 99-102: open for reading and json.load; any error is caught (129)
ResetRead ==
    \E r \in runs :
    /\ rm[r].pc = "read"
    /\ \/ /\ file.exists /\ file.readable /\ json_load_ok(file.text)
          /\ rm' = [rm EXCEPT ![r].pc = "generate",
                              ![r].config = json_load(file.text),
                              ![r].is_dict = file.text.object,
                              ![r].read_ok = TRUE]
       \/ Return(r, "False")
    /\ UNCHANGED <<runs, file, file0, authVars, pollVars, runVars, emailVars>>

\* a loaded document of any type that takes the new ids
has_update_any(is_dict) == TRUE

\* line 109: config.update exists when json.load returned a dict; on a
\* list, a string, a number or None it raises (caught at 129)
has_update(is_dict) == is_dict

\* lines 104-109: generate_new_ids and config.update
ResetGenerate ==
    \E r \in runs :
    /\ rm[r].pc = "generate"
    /\ \E ids \in generate_new_ids_set :
          IF has_update(rm[r].is_dict)
          THEN rm' = [rm EXCEPT ![r].pc = "open_w",
                                ![r].generated = TRUE,
                                ![r].new_ids = ids,
                                ![r].config = config_update(rm[r].config, ids)]
          ELSE rm' = [rm EXCEPT ![r].pc = "done", ![r].ret = "False",
                                ![r].generated = TRUE, ![r].new_ids = ids]
    /\ UNCHANGED <<runs, file, file0, authVars, pollVars, runVars, emailVars>>

\* line 113: open(db_path, "w") truncates the file, or raises (123, 129)
ResetOpenW ==
    \E r \in runs :
    /\ rm[r].pc = "open_w"
    /\ \/ /\ file.writable \/ ~file.exists
          /\ file' = [file EXCEPT !.exists = TRUE,
                                  !.text = FileText(<<>>, FALSE, 4)]
          /\ rm' = [rm EXCEPT ![r].pc = "dump", ![r].written = 0]
       \/ /\ Return(r, "False")
          /\ UNCHANGED file
    /\ UNCHANGED <<runs, file0, authVars, pollVars, runVars, emailVars>>

\* line 114: json.dump writes the document piece by piece; a write may raise
ResetDump ==
    \E r \in runs :
    /\ rm[r].pc = "dump"
    /\ \/ /\ rm[r].written < Len(rm[r].config)
          /\ file' = [file EXCEPT !.text.entries =
                        write_at(@, rm[r].written + 1,
                                 rm[r].config[rm[r].written + 1])]
          /\ rm' = [rm EXCEPT ![r].written = @ + 1]
       \/ /\ rm[r].written = Len(rm[r].config)
          /\ file' = IF Len(file.text.entries) = rm[r].written
                     THEN [file EXCEPT !.text.closed = TRUE]
                     ELSE [file EXCEPT !.text.entries =
                                 write_at(@, rm[r].written + 1, Hole)]
          /\ Return(r, "True")
       \/ /\ Return(r, "False")
          /\ UNCHANGED file
    /\ UNCHANGED <<runs, file0, authVars, pollVars, runVars, emailVars>>

NextIdentity ==
    \/ ResetCheck
    \/ ResetRead
    \/ ResetGenerate
    \/ ResetOpenW
    \/ ResetDump


----------------------------------------------------------------------------
(* Credential persister: src/auth/cursor_auth_manager.py                   *)

KeySignUpType == "cursorAuth/cachedSignUpType"
KeyEmail == "cursorAuth/cachedEmail"
KeyAccessToken == "cursorAuth/accessToken"
KeyRefreshToken == "cursorAuth/refreshToken"

AuthKeys == { KeySignUpType, KeyEmail, KeyAccessToken, KeyRefreshToken }

\* rows of itemTable that belong to the application
OtherStoreKeys == { "workbench.panel.position" }

StoreKeys == AuthKeys \cup OtherStoreKeys

Emails == { "a@icloud.com" }
AccessTokens == { "tokA" }
RefreshTokens == { "tokB" }

Row(key, value) == [key |-> key, value |-> value]

\* SELECT COUNT(*) FROM itemTable WHERE key = ?
select_count(tbl, key) == Cardinality({ i \in 1..Len(tbl) : tbl[i].key = key })

\* INSERT INTO itemTable (key, value) VALUES (?, ?)
sql_insert(tbl, key, value) == Append(tbl, Row(key, value))

\* an UPDATE that lost its WHERE clause
sql_update_all(tbl, key, value) ==
    [i \in 1..Len(tbl) |-> Row(tbl[i].key, value)]

\* UPDATE itemTable SET value = ? WHERE key = ?
sql_update(tbl, key, value) ==
    [i \in 1..Len(tbl) |-> IF tbl[i].key = key THEN Row(key, value) ELSE tbl[i]]

\* an upsert that never looks the key up
upsert_row_insert_only(tbl, key, value) == sql_insert(tbl, key, value)

\* lines 71-78: insert when the key has no row, update otherwise
upsert_row(tbl, key, value) ==
    IF select_count(tbl, key) = 0
    THEN sql_insert(tbl, key, value)
    ELSE sql_update(tbl, key, value)

\* a batch without the signed-in marker
build_updates_no_marker(email, access_token, refresh_token) ==
    (IF email # None THEN << Row(KeyEmail, email) >> ELSE << >>)
    \o (IF access_token # None THEN << Row(KeyAccessToken, refresh_token) >> ELSE << >>)
    \o (IF refresh_token # None THEN << Row(KeyRefreshToken, refresh_token) >> ELSE << >>)

\* a batch that stores the access token under cursorAuth/accessToken
build_updates_access_value(email, access_token, refresh_token) ==
    << Row(KeySignUpType, "Auth_0") >>
    \o (IF email # None THEN << Row(KeyEmail, email) >> ELSE << >>)
    \o (IF access_token # None THEN << Row(KeyAccessToken, access_token) >> ELSE << >>)
    \o (IF refresh_token # None THEN << Row(KeyRefreshToken, refresh_token) >> ELSE << >>)

\* lines 47-56: the batch of (key, value) pairs
build_updates(email, access_token, refresh_token) ==
    << Row(KeySignUpType, "Auth_0") >>
    \o (IF email # None THEN << Row(KeyEmail, email) >> ELSE << >>)
    \o (IF access_token # None THEN << Row(KeyAccessToken, refresh_token) >> ELSE << >>)
    \o (IF refresh_token # None THEN << Row(KeyRefreshToken, refresh_token) >> ELSE << >>)

\* lines 67-83: the rows of the open transaction after the first n pairs
RECURSIVE run_updates(_, _, _)
run_updates(tbl, updates, n) ==
    IF n = 0 THEN tbl
    ELSE upsert_row(run_updates(tbl, updates, n - 1),
                    updates[n].key, updates[n].value)

\* The steps of one call that may raise, numbered from 1: connect, then the
\* i-th pair's SELECT and INSERT or UPDATE (step i + 1), then commit.
stmt_count(updates) == Len(updates) + 2

\* pairs written when step failAt raises (failAt = 0: nothing raises)
writes_before(updates, failAt) ==
    IF failAt = 0 THEN Len(updates)
    ELSE IF failAt < 2 THEN 0
    ELSE failAt - 2

\* pairs whose SELECT was issued when step failAt raises
selects_before(updates, failAt) ==
    IF failAt = 0 \/ failAt - 1 > Len(updates)
    THEN Len(updates)
    ELSE failAt - 1

\* a connection that commits every statement as it runs
close_keeps_writes(committed, txn) == txn

\* lines 94-96: conn.close() without commit discards the open transaction
close_without_commit(committed, txn) == committed

\* lines 58-96: what one call leaves behind
update_auth(tbl, email, access_token, refresh_token, failAt) ==
    LET updates == build_updates(email, access_token, refresh_token)
        nw == writes_before(updates, failAt)
        ns == selects_before(updates, failAt)
        txn == run_updates(tbl, updates, nw)
    IN  IF updates = << >>
        THEN [ret |-> "False", db |-> tbl, updates |-> updates,
              written |-> 0, touched |-> {}]
        ELSE IF failAt = 0
        THEN [ret |-> "True", db |-> txn, updates |-> updates,
              written |-> nw,
              touched |-> { updates[i].key : i \in 1..ns }]
        ELSE [ret |-> "False", db |-> close_without_commit(tbl, txn),
              updates |-> updates, written |-> nw,
              touched |-> { updates[i].key : i \in 1..ns }]

NoCall ==
    [ret |-> None, updates |-> << >>, written |-> 0, touched |-> {},
     args |-> [email |-> None, access_token |-> None, refresh_token |-> None]]

RowSet == { Row(k, "old") : k \in StoreKeys }

InitStores ==
    { s \in UNION { [1..n -> RowSet] : n \in 0..MaxRows } :
        \A i, j \in 1..Len(s) : i # j => s[i].key # s[j].key }

InitAuth ==
    /\ db \in InitStores
    /\ db0 = db
    /\ last = NoCall
    /\ calls = 0
    /\ okEmails = << >>

\* the effect of one call on the store and on the record of calls
CallUpdateAuth(email, access_token, refresh_token, failAt) ==
    LET res == update_auth(db, email, access_token, refresh_token, failAt)
    IN  /\ db' = res.db
        /\ db0' = db
        /\ last' = [ret |-> res.ret, updates |-> res.updates,
                    written |-> res.written, touched |-> res.touched,
                    args |-> [email |-> email, access_token |-> access_token,
                              refresh_token |-> refresh_token]]
        /\ okEmails' = IF res.ret = "True"
                       THEN Append(okEmails, email) ELSE okEmails
        /\ calls' = calls + 1

\* one call of update_auth, with any arguments, failing at any step
UpdateAuth ==
    /\ calls < MaxCalls
    /\ \E email \in Emails \cup {None},
          access_token \in AccessTokens \cup {None},
          refresh_token \in RefreshTokens \cup {None} :
         \E failAt \in 0..stmt_count(build_updates(email, access_token, refresh_token)) :
            CallUpdateAuth(email, access_token, refresh_token, failAt)
    /\ UNCHANGED <<identityVars, pollVars, runVars, emailVars>>

----------------------------------------------------------------------------
(* Mailbox poller: src/utils/get_email_code.py                             *)

\* get_verification_code(max_retries=5, retry_interval=60)
DefaultMaxRetries == 5

\* _get_mail_code_by_icloud_imap gives up at retry >= 20
InnerRetryLimit == 20

\* one pass looks at min(10, len(mail_ids)) messages
ScanLimit == 10

\* the address the handler was built for, and the sender marker of line 131
Account == "a@icloud.com"
SenderMarker == "no-reply_at_cursor_sh"

\* A header is a sequence of pieces of text; a piece is "in" the header when
\* it is one of them, so << "x", Account >> is the address xa@icloud.com.
Contains(header, piece) == piece \in Range(header)

Digits == { "0", "1", "2", "3", "4", "5", "6", "7", "8", "9" }
Letters == { "a", "c", "d", "e", "m", "o", "x" }

\* \w of the regular expression
IsWord(c) == c \in Digits \/ c \in Letters \/ c = "_"

\* (?<![a-zA-Z@.])
LookbehindOk(body, p) ==
    p = 1 \/ ~(body[p - 1] \in Letters \/ body[p - 1] = "@" \/ body[p - 1] = ".")

\* \b before position p, which holds a word character
BoundaryBefore(body, p) == p = 1 \/ ~IsWord(body[p - 1])

\* \b after position q, which holds a word character
BoundaryAfter(body, q) == q = Len(body) \/ ~IsWord(body[q + 1])

\* (?<![a-zA-Z@.])\b\d{6}\b matches at position p
MatchesAt(body, p) ==
    /\ p + 5 <= Len(body)
    /\ \A q \in p..(p + 5) : body[q] \in Digits
    /\ LookbehindOk(body, p)
    /\ BoundaryBefore(body, p)
    /\ BoundaryAfter(body, p + 5)

\* re.search: the leftmost match, None when there is none
code_search(body) ==
    LET ps == { p \in 1..Len(body) : MatchesAt(body, p) }
    IN  IF ps = {} THEN None
        ELSE LET p == CHOOSE x \in ps : \A y \in ps : x <= y
             IN  SubSeq(body, p, p + 5)

\* _extract_imap_body: the first text/plain part that is no attachment of a
\* multipart message, the payload of a text/plain message, "" otherwise
extract_imap_body(msg) ==
    LET ok == { i \in 1..Len(msg.parts) :
                  /\ msg.parts[i].plain
                  /\ msg.multipart => ~msg.parts[i].attachment }
    IN  IF ok = {} THEN << >>
        ELSE msg.parts[CHOOSE i \in ok : \A j \in ok : i <= j].text

\* a pass that does not look at the recipient
message_code_any_recipient(msg) ==
    IF ~Contains(msg.from, SenderMarker) THEN None
    ELSE IF extract_imap_body(msg) = << >> THEN None
    ELSE code_search(extract_imap_body(msg))

\* lines 125-140: the code a fetched message yields (None: skipped)
message_code(msg) ==
    IF ~Contains(msg.to, Account) THEN None
    ELSE IF ~Contains(msg.from, SenderMarker) THEN None
    ELSE IF extract_imap_body(msg) = << >> THEN None
    ELSE code_search(extract_imap_body(msg))

Part(plain, attachment, text) ==
    [plain |-> plain, attachment |-> attachment, text |-> text]

Message(to, from, multipart, parts) ==
    [to |-> to, from |-> from, multipart |-> multipart, parts |-> parts]

BodyCode == << "c", "o", "d", "e", " ", "4", "8", "2", "9", "1", "3" >>
BodyOtherCode == << "1", "1", "1", "1", "1", "1", " ", "o", "x" >>
BodyNoCode == << "c", "o", "d", "e", " ", "4", "8", "2", "9", "1", "3", "7" >>

FromCursor == << SenderMarker, "@icloud.com" >>
FromOther == << "x", "@", "m", ".", "c", "o", "m" >>

\* the messages a mailbox may hold
MessageKinds ==
    { Message(<< Account >>, FromCursor, FALSE, << Part(TRUE, FALSE, BodyCode) >>),
      Message(<< Account >>, FromCursor, FALSE, << Part(TRUE, FALSE, BodyNoCode) >>),
      Message(<< Account >>, FromOther, FALSE, << Part(TRUE, FALSE, BodyOtherCode) >>),
      Message(<< "x", "@icloud.com" >>, FromCursor, FALSE,
              << Part(TRUE, FALSE, BodyOtherCode) >>),
      Message(<< Account >>, FromCursor, TRUE,
              << Part(FALSE, FALSE, BodyNoCode), Part(TRUE, TRUE, BodyNoCode),
                 Part(TRUE, FALSE, BodyOtherCode) >>) }

\* a message for the account from the sender, with one text/plain body
Matching(body) ==
    Message(<< Account >>, FromCursor, FALSE, << Part(TRUE, FALSE, body) >>)

\* mailboxes of matching messages, at most two of them with a code
ScanMailboxes ==
    UNION { { [j \in 1..n |-> IF j = a THEN Matching(BodyCode)
                              ELSE IF j = b THEN Matching(BodyOtherCode)
                              ELSE Matching(BodyNoCode)] : a, b \in 0..n }
            : n \in 1..MaxScanMsgs }

\* characters next to a run of digits: a letter, '@', '.', a space, a digit,
\* an underscore, or nothing
Neighbours == { << "a" >>, << "@" >>, << "." >>, << " " >>, << "7" >>, << "_" >>, << >> }

RunA == << "1", "2", "3", "4", "5", "6" >>
RunB == << "4", "8", "2", "9", "1", "3" >>

\* bodies with one run of six digits, or two, between such neighbours
ExtractBodies ==
    { pre \o RunA \o post : pre \in Neighbours, post \in Neighbours }
    \cup { pre \o RunA \o mid \o RunB \o post :
             pre \in Neighbours, mid \in Neighbours, post \in Neighbours }

InitMailboxes == UNION { [1..n -> MessageKinds] : n \in 0..MaxMsgs }

GvFrame(pc, max_retries) ==
    [pc |-> pc, max_retries |-> max_retries, attempt |-> 0, ret |-> None,
     raised |-> FALSE, rounds |-> 0, sleeps |-> 0, last_raised |-> FALSE,
     inner_sleeps |-> 0, faults |-> FALSE, fatal |-> FALSE]

ImFrame(pc) ==
    [pc |-> pc, retry |-> 0, n |-> 0, i |-> 0, result |-> None,
     conns |-> 0, open |-> 0, sleeps |-> 0, deleted |-> 0, fault |-> FALSE,
     examined |-> << >>, taken |-> << >>, cause |-> "none"]

InitPoll ==
    /\ mailbox \in InitMailboxes
    /\ delivered = 0
    /\ \E m \in 1..DefaultMaxRetries : gv = GvFrame("round", m)
    /\ im = ImFrame("idle")

\* a message arrives
Deliver ==
    /\ delivered < MaxDeliver
    /\ gv.pc \in {"round", "inner"}
    /\ \E msg \in MessageKinds : mailbox' = Append(mailbox, msg)
    /\ delivered' = delivered + 1
    /\ UNCHANGED <<gv, im, identityVars, authVars, runVars, emailVars>>

\* a poller that returns whatever its first round found
after_round_first_only(attempt, max_retries, found) == "return"

\* lines 40-44 and 48-52: after a round, wait for the next or leave
after_round(attempt, max_retries, found) ==
    IF attempt < max_retries - 1 /\ ~found THEN "retry" ELSE "return"

\* lines 35-39 and 66: a round starts; Config() may raise (46-52)
GvRound ==
    /\ gv.pc = "round"
    /\ gv.attempt < gv.max_retries
    /\ \/ /\ gv' = [gv EXCEPT !.pc = "inner", !.rounds = @ + 1]
          /\ im' = ImFrame("enter")
       \/ /\ IF after_round(gv.attempt, gv.max_retries, FALSE) = "retry"
             THEN gv' = [gv EXCEPT !.attempt = @ + 1, !.rounds = @ + 1,
                                   !.sleeps = @ + 1, !.last_raised = TRUE,
                                   !.faults = TRUE, !.inner_sleeps = 0]
             ELSE gv' = [gv EXCEPT !.pc = "done", !.rounds = @ + 1,
                                   !.raised = TRUE, !.last_raised = TRUE,
                                   !.faults = TRUE, !.inner_sleeps = 0]
          /\ UNCHANGED im
    /\ UNCHANGED <<mailbox, delivered, identityVars, authVars, runVars, emailVars>>

ImReturn(value) == [im EXCEPT !.pc = "ret", !.result = value]

\* the server or the network failed: the pass ends with None
ImFail == [im EXCEPT !.pc = "ret", !.result = None, !.fault = TRUE]

\* a pass that gives up one retry later
inner_exhausted_late(retry) == retry > InnerRetryLimit

\* line 88: if retry >= 20
inner_exhausted(retry) == retry >= InnerRetryLimit

\* lines 86-89: sleep before a retry; at retry 20 raise, which the except
\* clause of the calling frame (153) turns into None
ImapEnter ==
    /\ im.pc = "enter"
    /\ LET slept == [im EXCEPT !.sleeps = IF im.retry > 0 THEN @ + 1 ELSE @]
       IN  IF inner_exhausted(im.retry)
           THEN im' = [slept EXCEPT !.pc = "ret", !.result = None]
           ELSE im' = [slept EXCEPT !.pc = "connect"]
    /\ UNCHANGED <<mailbox, delivered, gv, identityVars, authVars, runVars, emailVars>>

\* lines 93-96: connect, login, select; an exception is caught at 153
ImapConnect ==
    /\ im.pc = "connect"
    /\ \/ im' = [im EXCEPT !.pc = "search", !.conns = @ + 1, !.open = @ + 1]
       \/ im' = ImFail
       \/ im' = [ImFail EXCEPT !.conns = @ + 1, !.open = @ + 1]
    /\ UNCHANGED <<mailbox, delivered, gv, identityVars, authVars, runVars, emailVars>>

\* lines 99-109: list the folder; an empty folder recurses with retry + 1
ImapSearch ==
    /\ im.pc = "search"
    /\ \/ im' = ImFail
       \/ /\ mailbox = << >>
          /\ im' = [im EXCEPT !.pc = "enter", !.retry = @ + 1]
       \/ /\ mailbox # << >>
          /\ im' = [im EXCEPT !.pc = "scan", !.n = Len(mailbox), !.i = 0]
    /\ UNCHANGED <<mailbox, delivered, gv, identityVars, authVars, runVars, emailVars>>

Min(a, b) == IF a < b THEN a ELSE b

\* the mailbox without its k-th message (store +Deleted, expunge)
Expunge(box, k) == [j \in 1..(Len(box) - 1) |-> IF j < k THEN box[j] ELSE box[j + 1]]

\* a pass that walks the listed messages from the oldest
scan_index_oldest_first(n, i) == i + 1

\* line 113: mail_ids[len(mail_ids) - 1 - i], counting positions from 1
scan_index(n, i) == n - i

\* lines 112-151: one candidate of the pass, newest first
ImapScan ==
    /\ im.pc = "scan"
    /\ IF im.i >= Min(ScanLimit, im.n)
       THEN /\ im' = [ImReturn(None) EXCEPT !.open = @ - 1]
            /\ UNCHANGED mailbox
       ELSE LET k == scan_index(im.n, im.i)
                code == message_code(mailbox[k])
                at == [im EXCEPT !.examined = Append(@, k)]
                found == [at EXCEPT !.taken = << mailbox[k] >>]
            IN  \/ \* fetch raised EOFError, ConnectionError or socket.error
                   /\ im' = [at EXCEPT !.pc = "ret", !.result = None,
                                       !.fault = TRUE, !.cause = "fatal",
                                       !.open = @ - 1]
                   /\ UNCHANGED mailbox
                \/ \* fetch raised something else, caught at 153
                   /\ im' = [at EXCEPT !.pc = "ret", !.result = None,
                                       !.fault = TRUE, !.cause = "fetch"]
                   /\ UNCHANGED mailbox
                \/ \* fetch answered with a status other than OK
                   /\ im' = [at EXCEPT !.i = @ + 1, !.fault = TRUE]
                   /\ UNCHANGED mailbox
                \/ \* fetched, and no code in it
                   /\ code = None
                   /\ im' = [at EXCEPT !.i = @ + 1]
                   /\ UNCHANGED mailbox
                \/ \* fetched, a code in it: store, expunge, logout, return
                   /\ code # None
                   /\ mailbox' = Expunge(mailbox, k)
                   /\ im' = [found EXCEPT !.pc = "ret", !.result = code,
                                          !.open = @ - 1, !.deleted = @ + 1]
                \/ \* store (143) raised, caught at 153
                   /\ code # None
                   /\ im' = [found EXCEPT !.pc = "ret", !.result = None,
                                          !.fault = TRUE, !.cause = "store"]
                   /\ UNCHANGED mailbox
                \/ \* stored, then expunge (144) raised, caught at 153
                   /\ code # None
                   /\ im' = [found EXCEPT !.pc = "ret", !.result = None,
                                          !.fault = TRUE, !.cause = "expunge",
                                          !.deleted = @ + 1]
                   /\ UNCHANGED mailbox
                \/ \* stored and expunged, then logout (146) raised
                   /\ code # None
                   /\ mailbox' = Expunge(mailbox, k)
                   /\ im' = [found EXCEPT !.pc = "ret", !.result = None,
                                          !.fault = TRUE, !.cause = "logout",
                                          !.deleted = @ + 1]
    /\ UNCHANGED <<delivered, gv, identityVars, authVars, runVars, emailVars>>

\* the sleeps of line 87 made so far by a poll in which nothing failed
\* (no longer counted once something has failed)
inner_total(sofar) ==
    IF gv.faults \/ im.fault THEN 0 ELSE sofar + im.sleeps

\* lines 39-44 with 69-73: the round's result decides
GvResult ==
    /\ gv.pc = "inner"
    /\ im.pc = "ret"
    /\ IF after_round(gv.attempt, gv.max_retries, im.result # None) = "retry"
       THEN gv' = [gv EXCEPT !.pc = "round", !.attempt = @ + 1,
                             !.sleeps = @ + 1, !.last_raised = FALSE,
                             !.inner_sleeps = inner_total(@),
                             !.faults = @ \/ im.fault,
                             !.fatal = @ \/ im.cause = "fatal"]
       ELSE gv' = [gv EXCEPT !.pc = "done", !.ret = im.result,
                             !.last_raised = FALSE,
                             !.inner_sleeps = inner_total(@),
                             !.faults = @ \/ im.fault,
                             !.fatal = @ \/ im.cause = "fatal"]
    /\ im' = [im EXCEPT !.pc = "idle", !.cause = "none", !.examined = << >>]
    /\ UNCHANGED <<mailbox, delivered, identityVars, authVars, runVars, emailVars>>

----------------------------------------------------------------------------
(* The provisioning run: src/core/cursor_pro_keep_alive.py                 *)

\* handle_turnstile(tab, max_retries=2, ...)
TurnstileMaxRetries == 2

\* get_cursor_session_token(tab, max_attempts=3, ...)
TokenMaxAttempts == 3

\* what a lookup on the page may do
Probes == { "present", "absent", "raise" }

\* VerificationStatus, in the order of the enumeration
StatusSeq == << "PASSWORD_PAGE", "CAPTCHA_PAGE", "ACCOUNT_SETTINGS" >>

PageViews == [1..Len(StatusSeq) -> Probes]

\* check_verification_success: the first status whose marker is on the
\* page; a lookup that raises before one is found raises
RECURSIVE check_from(_, _)
check_from(view, i) ==
    IF i > Len(StatusSeq) THEN None
    ELSE IF view[i] = "raise" THEN "raise"
    ELSE IF view[i] = "present" THEN StatusSeq[i]
    ELSE check_from(view, i + 1)

check_verification_success(view) == check_from(view, 1)

\* what check_verification_success can answer
Statuses == { check_verification_success(view) : view \in PageViews }

CookieName == "WorkosCursorSessionToken"

Cookie(name, segments) == [name |-> name, segments |-> segments]

\* cookie values, given as the pieces between the delimiters %3A%3A
CookieValues ==
    { << "AAA" >>, << "AAA", "BBB" >>, << "AAA", "BBB", "CCC" >>,
      << "AAA", "" >> }

OtherValues == { << "XXX" >>, << "XXX", "YYY" >>, << "XXX", "YYY", "ZZZ" >> }

Cookies ==
    { Cookie(CookieName, v) : v \in CookieValues }
        \cup { Cookie("other", v) : v \in OtherValues }

\* what tab.cookies() may return
CookieJars ==
    { << >> } \cup { << c >> : c \in Cookies }
              \cup { << c, d >> : c \in Cookies, d \in Cookies }

\* the cookies of that name, by position
Named(jar) == { i \in 1..Len(jar) : jar[i].name = CookieName }

FirstNamed(jar) == jar[CHOOSE i \in Named(jar) : \A j \in Named(jar) : i <= j]

\* a split that takes the piece before the delimiter
token_of_first_piece(jar) ==
    IF Named(jar) = {} THEN "absent"
    ELSE IF Len(FirstNamed(jar).segments) < 2 THEN "raise"
    ELSE FirstNamed(jar).segments[1]

\* lines 183-186: the first cookie of that name decides: the piece after
\* the first delimiter, IndexError when there is no delimiter
token_of(jar) ==
    IF Named(jar) = {} THEN "absent"
    ELSE IF Len(FirstNamed(jar).segments) < 2 THEN "raise"
    ELSE FirstNamed(jar).segments[2]

\* a loop that reads the cookies once more than max_attempts
token_loop_off_by_one(attempts, max_attempts) == attempts <= max_attempts

\* line 181: while attempts < max_attempts
token_loop(attempts, max_attempts) == attempts < max_attempts

\* unsolved counts the attempts after which the page showed none of the
\* three markers
TsFrame(pc) ==
    [pc |-> pc, max_retries |-> TurnstileMaxRetries, retry_count |-> 0,
     ret |-> None, clicks |-> 0, shot_failed |-> FALSE, unsolved |-> 0,
     lookup |-> None, clicked |-> FALSE, caught |-> 0, seen |-> "none"]

SuFrame(pc) ==
    [pc |-> pc, ret |-> None, iters |-> 0, polls |-> 0,
     poll_failed |-> FALSE, exhausted_at |-> None, ready_seen |-> FALSE,
     form_absent |-> FALSE, dup_seen |-> FALSE, usage |-> None]

MnFrame(pc, greater) ==
    [pc |-> pc, greater_than_0_45 |-> greater, choice |-> 0, token |-> None,
     attempts |-> 0, outcome |-> None, max_attempts |-> TokenMaxAttempts,
     backoffs |-> 0, cookies |-> << >>]

NoLog == [exists |-> FALSE, rows |-> 0]

\* a capture whose failure reaches the caller
save_screenshot_raises(capture_ok) == IF capture_ok THEN "returns" ELSE "raise"

\* lines 59-77: save_screenshot catches every exception of the capture
save_screenshot(capture_ok) == "returns"

\* lines 109-110: handle_turnstile starts with a screenshot, before its try
CallTurnstile ==
    \E shot \in BOOLEAN :
        ts' = IF save_screenshot(shot) = "raise"
              THEN [TsFrame("done") EXCEPT !.ret = "raised", !.shot_failed = TRUE]
              ELSE [TsFrame("try") EXCEPT !.shot_failed = ~shot]

SuReturn(value) == su' = [su EXCEPT !.pc = "done", !.ret = value, !.iters = 0]

\* a loop that makes one attempt more than max_retries
ts_loop_off_by_one(retry_count, max_retries) == retry_count <= max_retries

\* line 114: while retry_count < max_retries
ts_loop(retry_count, max_retries) == retry_count < max_retries

\* an attempt whose exception leaves the handler
inner_except_aborts(t) == [t EXCEPT !.pc = "done", !.ret = "raised", !.caught = @ + 1]

\* lines 143-144: except Exception of the attempt, then on to line 147
inner_except(t) == [t EXCEPT !.pc = "check", !.caught = @ + 1]

\* lines 114-161: the frame after the try block of one attempt, or after the
\* loop has ended
ts_try(frame, lookup, click, status, shot) ==
    IF ~ts_loop(frame.retry_count, frame.max_retries)
    THEN \* lines 155-161: out of retries
         IF save_screenshot(shot) = "raise"
         THEN [frame EXCEPT !.pc = "done", !.ret = "raised", !.shot_failed = TRUE]
         ELSE [frame EXCEPT !.pc = "done", !.ret = "False",
                            !.shot_failed = @ \/ ~shot]
    ELSE LET t == [frame EXCEPT !.retry_count = @ + 1, !.lookup = lookup,
                                !.clicked = FALSE, !.seen = "none"]
             c == [t EXCEPT !.clicks = @ + 1, !.clicked = TRUE,
                            !.shot_failed = @ \/ ~shot]
         IN  IF lookup = "raise" THEN inner_except(t)
             ELSE IF lookup = "absent" THEN [t EXCEPT !.pc = "check"]
             ELSE IF click = "raise" THEN inner_except(t)
             ELSE IF save_screenshot(shot) = "raise" THEN inner_except(c)
             ELSE IF status = "raise" THEN inner_except(c)
             ELSE IF status # None THEN [c EXCEPT !.pc = "done", !.ret = "True"]
             ELSE [c EXCEPT !.pc = "check"]

\* lines 115-146: the inner try block of one attempt
TsTry ==
    /\ ts.pc = "try"
    /\ \E lookup \in Probes, click \in {"ok", "raise"}, status \in Statuses,
          shot \in BOOLEAN :
          ts' = ts_try(ts, lookup, click, status, shot)
    /\ UNCHANGED <<mn, su, log, identityVars, authVars, pollVars, emailVars>>

\* an attempt that is not followed by a second look at the page
attempt_result_no_recheck(status) ==
    IF status = "raise" THEN "raised" ELSE "retry"

\* lines 147-149 and 163-167: if check_verification_success(tab): return True
attempt_result(status) ==
    IF status = "raise" THEN "raised"
    ELSE IF status # None THEN "True"
    ELSE "retry"

\* lines 147-153 and 163-167: the frame after the check that follows the try
\* block, outside it
ts_check(frame, status, shot) ==
    LET t == [frame EXCEPT !.seen = IF status = "raise" THEN "raise"
                                    ELSE IF status # None THEN "marker"
                                    ELSE "none"]
    IN  IF attempt_result(status) = "raised"
        THEN [t EXCEPT !.pc = "done", !.ret = "raised",
                       !.shot_failed = @ \/ ~shot]
        ELSE IF attempt_result(status) = "True"
        THEN [t EXCEPT !.pc = "done", !.ret = "True"]
        ELSE [t EXCEPT !.pc = "try", !.unsolved = @ + 1]

TsCheck ==
    /\ ts.pc = "check"
    /\ \E status \in Statuses, shot \in BOOLEAN : ts' = ts_check(ts, status, shot)
    /\ UNCHANGED <<mn, su, log, identityVars, authVars, pollVars, emailVars>>

\* lines 237-261: the sign-up form
SuForm ==
    /\ su.pc = "form"
    /\ \/ /\ SuReturn("raised")
          /\ UNCHANGED ts
       \/ \E form \in Probes, fill \in {"ok", "raise"} :
             IF form = "raise" \/ (form = "present" /\ fill = "raise")
             THEN SuReturn("False") /\ UNCHANGED ts
             ELSE /\ su' = [su EXCEPT !.pc = "ts1",
                                      !.form_absent = (form = "absent")]
                  /\ CallTurnstile
    /\ UNCHANGED <<mn, log, identityVars, authVars, pollVars, emailVars>>

NextStep(pc) ==
    IF pc = "ts1" THEN "password" ELSE IF pc = "ts2" THEN "verify" ELSE "settings"

\* lines 261, 281, 307: handle_turnstile(tab) as a statement: its result is
\* dropped, a TurnstileError leaves sign_up_account
after_turnstile(frame, result) ==
    IF result = "raised"
    THEN [frame EXCEPT !.pc = "done", !.ret = "raised", !.iters = 0]
    ELSE [frame EXCEPT !.pc = NextStep(frame.pc), !.iters = 0,
                       !.exhausted_at =
                           IF result = "False" /\ @ = None THEN frame.pc ELSE @]

SuTurnstile ==
    /\ su.pc \in {"ts1", "ts2", "ts3"}
    /\ ts.pc = "done"
    /\ su' = after_turnstile(su, ts.ret)
    /\ ts' = TsFrame("idle")
    /\ UNCHANGED <<mn, log, identityVars, authVars, pollVars, emailVars>>

\* lines 263-275: the password field
SuPassword ==
    /\ su.pc = "password"
    /\ \E field \in Probes, fill \in {"ok", "raise"} :
          IF field = "raise" \/ (field = "present" /\ fill = "raise")
          THEN SuReturn("False")
          ELSE su' = [su EXCEPT !.pc = "dup"]
    /\ UNCHANGED <<mn, ts, log, identityVars, authVars, pollVars, emailVars>>

\* a check that only logs the marker
dup_check_logs_only(marker) ==
    IF marker = "raise" THEN "raised" ELSE "go"

\* lines 277-279: the lookup raises, the marker is there, or it is not
dup_check(marker) ==
    IF marker = "raise" THEN "raised"
    ELSE IF marker = "present" THEN "False"
    ELSE "go"

\* lines 277-281: "This email is not available."
SuDupCheck ==
    /\ su.pc = "dup"
    /\ \E marker \in Probes :
          LET s == [su EXCEPT !.dup_seen = (marker = "present")]
          IN  IF dup_check(marker) = "go"
              THEN su' = [s EXCEPT !.pc = "ts2"] /\ CallTurnstile
              ELSE /\ su' = [s EXCEPT !.pc = "done", !.ret = dup_check(marker),
                                       !.iters = 0]
                   /\ UNCHANGED ts
    /\ UNCHANGED <<mn, log, identityVars, authVars, pollVars, emailVars>>

\* lines 283-290 and 304-305: one round of the while True loop, up to the
\* call of the poller
SuVerify ==
    /\ su.pc = "verify"
    /\ su.iters < MaxLoop
    /\ \E ready \in Probes, prompt \in Probes :
          LET s == [su EXCEPT !.iters = @ + 1]
          IN  IF ready = "present"
              THEN /\ su' = [s EXCEPT !.pc = "ts3", !.ready_seen = TRUE]
                   /\ CallTurnstile
                   /\ UNCHANGED <<gv, im>>
              ELSE IF ready = "absent" /\ prompt = "present"
              THEN /\ su' = [s EXCEPT !.pc = "poll", !.polls = @ + 1]
                   /\ gv' = GvFrame("round", DefaultMaxRetries)
                   /\ im' = ImFrame("idle")
                   /\ UNCHANGED ts
              ELSE /\ su' = s
                   /\ UNCHANGED <<ts, gv, im>>
    /\ UNCHANGED <<mn, log, mailbox, delivered, identityVars, authVars, emailVars>>

\* lines 304-305: the exception of the poller is logged, the loop goes on
after_poll_raise(frame) ==
    [frame EXCEPT !.pc = "verify", !.poll_failed = TRUE]

\* lines 290-303: the poller is back
SuPollReturn ==
    /\ su.pc = "poll"
    /\ gv.pc = "done"
    /\ IF gv.raised
       THEN su' = after_poll_raise(su) /\ UNCHANGED ts
       ELSE IF gv.ret = None
       THEN /\ su' = [su EXCEPT !.pc = "done", !.ret = "False", !.iters = 0,
                                !.poll_failed = TRUE]
            /\ UNCHANGED ts
       ELSE \E typing \in {"ok", "raise"} :
               IF typing = "ok"
               THEN su' = [su EXCEPT !.pc = "ts3"] /\ CallTurnstile
               ELSE su' = [su EXCEPT !.pc = "verify"] /\ UNCHANGED ts
    /\ gv' = GvFrame("idle", DefaultMaxRetries)
    /\ im' = ImFrame("idle")
    /\ UNCHANGED <<mn, log, mailbox, delivered, identityVars, authVars, emailVars>>

\* lines 308-336: the settings page (tab.get at 314, before the try) and
\* the usage read (inside the try of 315-330)
SuSettings ==
    /\ su.pc = "settings"
    /\ \/ su' = [su EXCEPT !.pc = "done", !.ret = "raised", !.iters = 0,
                           !.usage = "nav_failed"]
       \/ \E usage \in Probes :
             su' = [su EXCEPT !.pc = "done", !.ret = "True", !.iters = 0,
                              !.usage = IF usage = "raise" THEN "failed"
                                        ELSE "read"]
    /\ UNCHANGED <<mn, ts, log, identityVars, authVars, pollVars, emailVars>>

\* the verification mail arrives: while the page is being worked on, or
\* between two rounds of the poller
RunDeliver ==
    /\ delivered = 0
    /\ \/ su.pc \in {"ts2", "verify"}
       \/ su.pc = "poll" /\ gv.pc = "round"
    /\ mailbox' = Append(mailbox,
          Message(<< Account >>, FromCursor, FALSE, << Part(TRUE, FALSE, BodyCode) >>))
    /\ delivered' = 1
    /\ UNCHANGED <<gv, im, runVars, identityVars, authVars, emailVars>>

MnEnd(outcome) == mn' = [mn EXCEPT !.pc = "done", !.outcome = outcome]

\* lines 628-687: the menu
MainMenu ==
    /\ mn.pc = "menu"
    /\ \E choice \in 1..4 :
          LET m == [mn EXCEPT !.choice = choice]
          IN  IF choice = 1 THEN mn' = [m EXCEPT !.pc = "reset"]
              ELSE IF choice = 3
              THEN \E gen \in {"ok", "exit", "raise"} :
                      IF gen = "ok" THEN mn' = [m EXCEPT !.pc = "init"]
                      ELSE IF gen = "exit"
                      THEN mn' = [m EXCEPT !.pc = "done", !.outcome = "exit1"]
                      ELSE mn' = [m EXCEPT !.pc = "done", !.outcome = "error"]
              ELSE mn' = [m EXCEPT !.pc = "init"]
    /\ UNCHANGED <<su, ts, log, identityVars, authVars, pollVars, emailVars>>

\* lines 689-736: browser, account data, login page, call of sign_up_account
MainInit ==
    /\ mn.pc = "init"
    /\ \/ /\ mn' = [mn EXCEPT !.pc = "signup"]
          /\ su' = SuFrame("form")
       \/ /\ MnEnd("error")
          /\ UNCHANGED su
       \/ /\ MnEnd("exit1")
          /\ UNCHANGED su
    /\ UNCHANGED <<ts, log, identityVars, authVars, pollVars, emailVars>>

\* a main that goes for the token whatever sign_up_account returned
after_sign_up_unchecked(ret) ==
    IF ret = "raised" THEN "error" ELSE "token"

\* line 736: `if sign_up_account(...)`; an exception goes to line 761
after_sign_up(ret) ==
    IF ret = "raised" THEN "error"
    ELSE IF ret = "True" THEN "token"
    ELSE "signup_failed"

\* line 736: sign_up_account is back
MainSignUpReturn ==
    /\ mn.pc = "signup"
    /\ su.pc = "done"
    /\ IF after_sign_up(su.ret) = "token"
       THEN mn' = [mn EXCEPT !.pc = "token"]
       ELSE MnEnd(after_sign_up(su.ret))
    /\ su' = [su EXCEPT !.usage = None]
    /\ UNCHANGED <<ts, log, identityVars, authVars, pollVars, emailVars>>

\* lines 181-206 and 738-760: one round of the loop of
\* get_cursor_session_token, and what main does with the result
MainToken ==
    /\ mn.pc = "token"
    /\ IF token_loop(mn.attempts, mn.max_attempts)
       THEN \E jar \in CookieJars, cookies \in {"ok", "raise"} :
               LET tok == IF cookies = "raise" THEN "raise" ELSE token_of(jar)
                   read == IF cookies = "raise" THEN << >> ELSE jar
                   tried == mn.attempts + 1
               IN  IF tok \in {"raise", "absent"}
                   THEN mn' = [mn EXCEPT !.attempts = tried,
                                         !.cookies = << >>,
                                         !.backoffs =
                                             IF tried < mn.max_attempts
                                             THEN @ + 1 ELSE @]
                   ELSE IF tok = ""
                   THEN mn' = [mn EXCEPT !.token = tok, !.cookies = read,
                                         !.attempts = 0, !.backoffs = 0,
                                         !.pc = "done", !.outcome = "no_token"]
                   ELSE mn' = [mn EXCEPT !.token = tok, !.cookies = read,
                                         !.attempts = 0, !.backoffs = 0,
                                         !.pc = "csv"]
       ELSE \* line 206: return None
            mn' = [mn EXCEPT !.pc = "done", !.outcome = "no_token"]
    /\ UNCHANGED <<su, ts, log, identityVars, authVars, pollVars, emailVars>>

\* lines 565-611 and 747: save_account_to_csv; its result is dropped
MainSaveCsv ==
    /\ mn.pc = "csv"
    /\ \/ log' = [exists |-> TRUE, rows |-> log.rows + 1]
       \/ UNCHANGED log
    /\ mn' = [mn EXCEPT !.pc = "auth", !.cookies = << >>]
    /\ UNCHANGED <<su, ts, identityVars, authVars, pollVars, emailVars>>

\* lines 749-751: update_cursor_auth(account, token, token); its result is
\* dropped, an exception of the constructor ends the run
MainAuth ==
    /\ mn.pc = "auth"
    /\ \/ /\ \E failAt \in 0..stmt_count(build_updates(Account, mn.token, mn.token)) :
                CallUpdateAuth(Account, mn.token, mn.token, failAt)
          /\ mn' = [mn EXCEPT !.pc = "reset"]
       \/ /\ MnEnd("error")
          /\ UNCHANGED authVars
    /\ UNCHANGED <<su, ts, log, identityVars, pollVars, emailVars>>

\* lines 547-552 with 647 and 756: reset_machine_id
MainReset ==
    /\ mn.pc = "reset"
    /\ \/ /\ mn.greater_than_0_45
          /\ mn' = [mn EXCEPT !.pc = "end"]
          /\ UNCHANGED rm
       \/ /\ ~mn.greater_than_0_45
          /\ mn' = [mn EXCEPT !.pc = "reset_wait"]
          /\ rm' = [r \in runs |-> ResetFrame("check")]
       \/ /\ MnEnd("error")
          /\ UNCHANGED rm
    /\ UNCHANGED <<runs, file, file0, su, ts, log, authVars, pollVars, emailVars>>

\* reset_machine_ids is back; its result is dropped
MainResetReturn ==
    /\ mn.pc = "reset_wait"
    /\ \A r \in runs : rm[r].pc = "done"
    /\ mn' = [mn EXCEPT !.pc = "end"]
    /\ UNCHANGED <<su, ts, log, identityVars, authVars, pollVars, emailVars>>

\* lines 648-650 and 757-758: print_end_message; mode 1 leaves by sys.exit(0)
MainEnd ==
    /\ mn.pc = "end"
    /\ IF mn.choice = 1 THEN MnEnd("exit0") ELSE MnEnd("completed")
    /\ UNCHANGED <<su, ts, log, identityVars, authVars, pollVars, emailVars>>

RunFiles ==
    { NoFile,
      [exists |-> TRUE, readable |-> TRUE, writable |-> TRUE,
       text |-> FileText(<< [k |-> "backupWorkspaces", v |-> "old"],
                            [k |-> "telemetry.machineId", v |-> "old"] >>,
                         TRUE, 0)] }

RunStores == { << Row("workbench.panel.position", "old"), Row(KeyEmail, "old") >> }

InitRun ==
    /\ \E greater \in BOOLEAN : mn = MnFrame("menu", greater)
    /\ su = SuFrame("idle")
    /\ ts = TsFrame("idle")
    /\ log = NoLog
    /\ mailbox = << >>
    /\ delivered = 0
    /\ gv = GvFrame("idle", DefaultMaxRetries)
    /\ im = ImFrame("idle")
    /\ runs = {1}
    /\ file \in RunFiles
    /\ file0 = file
    /\ rm = [r \in runs |-> ResetFrame("idle")]
    /\ db \in RunStores
    /\ db0 = db
    /\ last = NoCall
    /\ calls = 0
    /\ emails = [exists |-> FALSE, lines |-> << >>]
    /\ eg = << >>
    /\ okEmails = << >>

----------------------------------------------------------------------------
(* The local address list: EmailGenerator.generate_email,                  *)
(* src/core/cursor_pro_keep_alive.py, with use_icloud off or failed        *)

Addresses == { "e1@icloud.com", "e2@icloud.com", "e3@icloud.com" }

\* emails.txt: absent, or its lines in order (no address twice)
EmailFiles ==
    { [exists |-> FALSE, lines |-> << >>] }
    \cup { [exists |-> TRUE, lines |-> l] :
             l \in { q \in UNION { [1..n -> Addresses] : n \in 0..MaxEmails } :
                       \A i, j \in 1..Len(q) : i # j => q[i] # q[j] } }

EgFrame(pc) == [pc |-> pc, lines |-> << >>, ret |-> None, wrote |-> FALSE]

\* lines 490-500: create the file when it is absent, readlines, and exit
\* on an empty list; an exception exits too (510-513)
GenRead ==
    \E r \in DOMAIN eg :
    /\ eg[r].pc = "read"
    /\ \/ /\ emails' = [emails EXCEPT !.exists = TRUE]
          /\ eg' = [eg EXCEPT ![r].pc = IF emails.lines = << >> THEN "exited"
                                        ELSE "open_w",
                              ![r].lines = emails.lines]
       \/ /\ eg' = [eg EXCEPT ![r].pc = "exited"]
          /\ UNCHANGED emails
    /\ UNCHANGED <<identityVars, authVars, pollVars, runVars>>

\* lines 503-506: first_email = lines[0].strip(); open(path, "w") truncates
GenOpenW ==
    \E r \in DOMAIN eg :
    /\ eg[r].pc = "open_w"
    /\ \/ /\ emails' = [exists |-> TRUE, lines |-> << >>]
          /\ eg' = [eg EXCEPT ![r].pc = "write", ![r].wrote = TRUE]
       \/ /\ eg' = [eg EXCEPT ![r].pc = "exited"]
          /\ UNCHANGED emails
    /\ UNCHANGED <<identityVars, authVars, pollVars, runVars>>

\* lines 506-508: f.writelines(lines[1:]) from the start of the file, over
\* whatever another writer has put there meanwhile; return first_email
GenWrite ==
    \E r \in DOMAIN eg :
    /\ eg[r].pc = "write"
    /\ \/ /\ LET rest == Tail(eg[r].lines)
                 n == IF Len(rest) > Len(emails.lines) THEN Len(rest)
                      ELSE Len(emails.lines)
             IN  emails' = [emails EXCEPT !.lines =
                               [j \in 1..n |-> IF j <= Len(rest) THEN rest[j]
                                               ELSE emails.lines[j]]]
          /\ eg' = [eg EXCEPT ![r].pc = "done", ![r].ret = eg[r].lines[1]]
       \/ /\ eg' = [eg EXCEPT ![r].pc = "exited"]
          /\ UNCHANGED emails
    /\ UNCHANGED <<identityVars, authVars, pollVars, runVars>>

NextEmails ==
    \/ GenRead
    \/ GenOpenW
    \/ GenWrite

----------------------------------------------------------------------------
(* Specifications                                                          *)

\* the components that take no step in a specification stay as they start
IdleIdentity ==
    /\ runs = {}
    /\ file = NoFile
    /\ file0 = NoFile
    /\ rm = << >>

IdleAuth ==
    /\ db = << >>
    /\ db0 = << >>
    /\ last = NoCall
    /\ calls = 0
    /\ okEmails = << >>

IdleEmail ==
    /\ emails = [exists |-> FALSE, lines |-> << >>]
    /\ eg = << >>

IdlePoll ==
    /\ mailbox = << >>
    /\ delivered = 0
    /\ gv = GvFrame("idle", DefaultMaxRetries)
    /\ im = ImFrame("idle")

IdleRun ==
    /\ mn = MnFrame("idle", FALSE)
    /\ su = SuFrame("idle")
    /\ ts = TsFrame("idle")
    /\ log = NoLog

InitIdentitySpec == InitIdentity /\ IdleAuth /\ IdlePoll /\ IdleRun /\ IdleEmail

SpecIdentity == InitIdentitySpec /\ [][NextIdentity]_vars

NextAuth == UpdateAuth

InitAuthSpec == InitAuth /\ IdleIdentity /\ IdlePoll /\ IdleRun /\ IdleEmail

SpecAuth == InitAuthSpec /\ [][NextAuth]_vars

NextPoll ==
    \/ Deliver
    \/ GvRound
    \/ ImapEnter
    \/ ImapConnect
    \/ ImapSearch
    \/ ImapScan
    \/ GvResult

InitPollSpec == InitPoll /\ IdleIdentity /\ IdleAuth /\ IdleRun /\ IdleEmail

SpecPoll == InitPollSpec /\ [][NextPoll]_vars

\* one round of the poller over a mailbox longer than a pass looks at
InitScanSpec ==
    /\ mailbox \in ScanMailboxes
    /\ delivered = 0
    /\ gv = GvFrame("round", 1)
    /\ im = ImFrame("idle")
    /\ IdleIdentity /\ IdleAuth /\ IdleRun /\ IdleEmail

SpecScan == InitScanSpec /\ [][NextPoll]_vars

\* one round of the poller over one matching message with a given body
InitExtractSpec ==
    /\ \E body \in ExtractBodies : mailbox = << Matching(body) >>
    /\ delivered = 0
    /\ gv = GvFrame("round", 1)
    /\ im = ImFrame("idle")
    /\ IdleIdentity /\ IdleAuth /\ IdleRun /\ IdleEmail

SpecExtract == InitExtractSpec /\ [][NextPoll]_vars

\* handle_turnstile alone, called with max_retries of 1..MaxTsRetries
InitTurnstileSpec ==
    /\ \E m \in 1..MaxTsRetries, shot \in BOOLEAN :
          ts = [TsFrame("try") EXCEPT !.max_retries = m, !.shot_failed = ~shot]
    /\ mn = MnFrame("idle", FALSE)
    /\ su = SuFrame("idle")
    /\ log = NoLog
    /\ IdleIdentity
    /\ IdleAuth
    /\ IdlePoll
    /\ IdleEmail

NextTurnstile ==
    \/ TsTry
    \/ TsCheck

SpecTurnstile == InitTurnstileSpec /\ [][NextTurnstile]_vars

\* get_cursor_session_token alone, with max_attempts of 1..3
InitTokenSpec ==
    /\ \E n \in 1..TokenMaxAttempts :
          mn = [MnFrame("token", FALSE) EXCEPT !.max_attempts = n]
    /\ su = SuFrame("idle")
    /\ ts = TsFrame("idle")
    /\ log = NoLog
    /\ IdleIdentity
    /\ IdleAuth
    /\ IdlePoll
    /\ IdleEmail

NextToken == MainToken

SpecToken == InitTokenSpec /\ [][NextToken]_vars

\* two runs reset the machine ids of the same storage.json
InitConcurrentSpec ==
    /\ runs = {1, 2}
    /\ file \in RunFiles
    /\ file0 = file
    /\ rm = [r \in runs |-> ResetFrame("check")]
    /\ IdleAuth
    /\ IdlePoll
    /\ IdleRun
    /\ IdleEmail

SpecConcurrent == InitConcurrentSpec /\ [][NextIdentity]_vars

\* two runs on one machine ask for an address from the same emails.txt
InitEmailSpec ==
    /\ emails \in EmailFiles
    /\ eg = [r \in {1, 2} |-> EgFrame("read")]
    /\ IdleIdentity /\ IdleAuth /\ IdlePoll /\ IdleRun

SpecEmails == InitEmailSpec /\ [][NextEmails]_vars

NextRun ==
    \/ MainMenu
    \/ MainInit
    \/ SuForm
    \/ TsTry
    \/ TsCheck
    \/ SuTurnstile
    \/ SuPassword
    \/ SuDupCheck
    \/ SuVerify
    \/ RunDeliver
    \/ GvRound
    \/ ImapEnter
    \/ ImapConnect
    \/ ImapSearch
    \/ ImapScan
    \/ GvResult
    \/ SuPollReturn
    \/ SuSettings
    \/ MainSignUpReturn
    \/ MainToken
    \/ MainSaveCsv
    \/ MainAuth
    \/ MainReset
    \/ ResetCheck
    \/ ResetRead
    \/ ResetGenerate
    \/ ResetOpenW
    \/ ResetDump
    \/ MainResetReturn
    \/ MainEnd

SpecRun == InitRun /\ [][NextRun]_vars

----------------------------------------------------------------------------
(* Claims about the machine identity store                                 *)

ResetReturned(r, value) == rm[r].pc = "done" /\ rm[r].ret = value

\* C1: if a step of reset_machine_ids after the read of the identity file
\* fails (the write-back included, wherever it stops), the file on disk is
\* identical to its content before the call.
C1_FailedResetLeavesFile ==
    \A r \in runs :
        (ResetReturned(r, "False") /\ rm[r].read_ok) => file = file0

\* C2: after a successful reset the file holds exactly the keys it held
\* before plus the four identity keys; every other key keeps its value and
\* each identity key holds the newly generated value.
C2_ResetMergesIdentityKeys ==
    \A r \in runs :
        ResetReturned(r, "True") =>
            /\ file.text.closed
            /\ KeysOf(file.text.entries) = KeysOf(file0.text.entries) \cup IdentityKeys
            /\ \A k \in KeysOf(file.text.entries) \ IdentityKeys :
                  ValueOf(file.text.entries, k) = ValueOf(file0.text.entries, k)
            /\ \A k \in IdentityKeys :
                  ValueOf(file.text.entries, k) = rm[r].new_ids[k]
            /\ Len(file.text.entries) = Cardinality(KeysOf(file.text.entries))

\* a successful reset of a file that held another key and an identity key
C2_Witness ==
    \E r \in runs :
        /\ ResetReturned(r, "True")
        /\ KeysOf(file0.text.entries) \cap OtherKeys # {}
        /\ KeysOf(file0.text.entries) \cap IdentityKeys # {}

\* C3: when the identity file does not exist or is not both readable and
\* writable, reset reports failure before any side effect: the file is not
\* created or written and no new identity is generated.
C3_UnusableFileNoSideEffect ==
    \A r \in runs :
        ~(file0.exists /\ file0.readable /\ file0.writable) =>
            /\ file = file0
            /\ ~rm[r].generated
            /\ ~rm[r].read_ok
            /\ rm[r].pc \in {"check", "done"}
            /\ rm[r].pc = "done" => rm[r].ret = "False"

\* reset has returned False for a file that parses but is read-only
C3_Witness ==
    \E r \in runs :
        /\ ResetReturned(r, "False")
        /\ file0.exists /\ file0.readable /\ ~file0.writable
        /\ json_load_ok(file0.text)

----------------------------------------------------------------------------
(* Claims about the credential persister                                   *)

Called == last.ret # None

RowsOf(tbl, key) == { i \in 1..Len(tbl) : tbl[i].key = key }

\* C4: update_auth is all-or-nothing: when a step of the batch raises, at
\* any position, the call reports failure and the store holds exactly the
\* rows it held before; when it reports success every pair is committed.
C4_UpsertAllOrNothing ==
    /\ last.ret = "False" => db = db0
    /\ last.ret = "True" =>
          \A i \in 1..Len(last.updates) :
              /\ RowsOf(db, last.updates[i].key) # {}
              /\ \A j \in RowsOf(db, last.updates[i].key) :
                    db[j].value = last.updates[i].value

\* a call that raised after it had written at least one pair
C4_Witness == last.ret = "False" /\ last.written >= 1 /\ calls >= 1

\* C5: after successful calls every key of the batch has exactly one row: a
\* key without a row is inserted, a key with a row is updated in place, so
\* two calls with the same email leave one cachedEmail row.
C5_OneRowPerKey ==
    /\ \A k \in AuthKeys : select_count(db, k) <= 1
    /\ last.ret = "True" =>
          /\ \A i \in 1..Len(last.updates) :
                select_count(db, last.updates[i].key) = 1
          /\ Len(db) >= Len(db0)
          /\ \A i \in 1..Len(db0) : db[i].key = db0[i].key
          /\ Len(db) - Len(db0) =
                Cardinality({ i \in 1..Len(last.updates) :
                                select_count(db0, last.updates[i].key) = 0 })

\* two successful calls with the same email, and one cachedEmail row
C5_Witness ==
    /\ Len(okEmails) >= 2
    /\ okEmails[1] # None
    /\ okEmails[1] = okEmails[2]
    /\ select_count(db, KeyEmail) = 1

\* C6: after every successful call, whichever of email, accessToken and
\* refreshToken were given (none included), the store holds
\* cursorAuth/cachedSignUpType with the value Auth_0.
C6_MarkerAfterSuccess ==
    last.ret = "True" =>
        /\ RowsOf(db, KeySignUpType) # {}
        /\ \A j \in RowsOf(db, KeySignUpType) : db[j].value = "Auth_0"

\* a successful call that was given none of the three arguments
C6_Witness == last.ret = "True" /\ Len(last.updates) = 1

\* C7: a call reads and writes only the four cursorAuth keys; every other
\* row of the store is unchanged after the call, successful or failed.
C7_OnlyNamespaceTouched ==
    Called =>
        /\ last.touched \subseteq AuthKeys
        /\ Len(db) >= Len(db0)
        /\ \A i \in 1..Len(db0) : db0[i].key \notin AuthKeys => db[i] = db0[i]
        /\ \A i \in (Len(db0) + 1)..Len(db) : db[i].key \in AuthKeys

\* a successful call on a store that held an application row and a
\* cursorAuth row, which it updated
C7_Witness ==
    /\ last.ret = "True"
    /\ \E i \in 1..Len(db0) : db0[i].key \in OtherStoreKeys
    /\ \E i \in 1..Len(db0) : db0[i].key \in AuthKeys /\ db[i] # db0[i]

----------------------------------------------------------------------------
(* Claims about the mailbox poller                                         *)

IsCode(c) == c # None /\ Len(c) = 6 /\ \A q \in 1..6 : c[q] \in Digits

PollDone == gv.pc = "done"

NoMatchEver ==
    /\ ~gv.faults
    /\ gv.ret = None
    /\ \A k \in 1..Len(mailbox) : message_code(mailbox[k]) = None

\* C11: when no message ever matches, the poll ends by raising, after
\* exactly max_retries * 20 sleeps (inner and outer sleeps counted alike).
C11_NoMatchDelayUnits ==
    (PollDone /\ NoMatchEver) =>
        /\ gv.raised
        /\ gv.sleeps + gv.inner_sleeps = gv.max_retries * InnerRetryLimit

----------------------------------------------------------------------------
(* Claims about the provisioning run                                       *)

\* C8: once handle_turnstile has used up its retries without success at a
\* step of the registration, the registration stays at that step or ends
\* without success, no session token is acquired, no update_auth call is
\* made and no row is written to the accounts log.
C8_CaptchaExhaustionTerminal ==
    su.exhausted_at # None =>
        /\ su.pc \in {su.exhausted_at, "done"}
        /\ su.ret # "True"
        /\ mn.token = None
        /\ calls = 0
        /\ log.rows = 0

\* C10: once the mailbox poller has failed during the verification step
\* (returned no code or raised), it is not called again, the registration
\* does not succeed and no update_auth call is made.
C10_PollFailureTerminal ==
    su.poll_failed =>
        /\ su.polls <= 1
        /\ su.ret # "True"
        /\ calls = 0

\* C12: handle_turnstile returns True after exactly k attempts when the
\* page first shows a success marker at attempt k, returns False after
\* exactly max_retries attempts when it never does, and retry_count never
\* exceeds max_retries.
C12_TurnstileAttempts ==
    /\ ts.retry_count <= ts.max_retries
    /\ (ts.pc = "done" /\ ts.ret = "True") =>
           /\ ts.retry_count = ts.unsolved + 1
           /\ ts.retry_count >= 1
    /\ (ts.pc = "done" /\ ts.ret = "False") =>
           /\ ts.retry_count = ts.max_retries
           /\ ts.unsolved = ts.max_retries

C12_Witness ==
    /\ ts.pc = "done"
    /\ ts.ret = "True"
    /\ ts.retry_count = 2
    /\ ts.max_retries = 3

\* C13: sign_up_account returns True only when the "Account Settings"
\* marker was seen on the page in the verification loop.
C13_SuccessOnlyAfterReady ==
    (su.pc = "done" /\ su.ret = "True") => su.ready_seen

\* C14: the verification loop of sign_up_account has an iteration cap: it
\* is not entered again once MaxLoop iterations have been made.
C14_VerifyLoopCapped ==
    su.pc = "verify" => su.iters < MaxLoop

\* C15: when the sign-up form (the first_name field) is absent, the
\* registration ends without success: no password step, no
\* handle_turnstile call and no call of the mailbox poller.
C15_AbsentFormFails ==
    su.form_absent =>
        /\ su.pc = "done"
        /\ su.ret # "True"
        /\ ts.pc = "idle"
        /\ su.polls = 0

\* C16: once "This email is not available." was seen after the password
\* step, sign_up_account has returned False without calling the poller,
\* and the run acquires no token, makes no update_auth call, writes no
\* accounts row and does not reset the machine ids.
C16_DuplicateAccountTerminal ==
    su.dup_seen =>
        /\ su.pc = "done"
        /\ su.ret = "False"
        /\ su.polls = 0
        /\ ts.pc = "idle"
        /\ mn.pc \in {"signup", "done"}
        /\ mn.pc = "done" => mn.outcome = "signup_failed"
        /\ mn.token = None
        /\ calls = 0
        /\ log = NoLog
        /\ file = file0
        /\ \A r \in runs : rm[r].pc = "idle"

C16_Witness ==
    su.dup_seen /\ mn.pc = "done"

\* the acquirer has returned a token read from the cookies in mn.cookies
TokenReturned == mn.token # None /\ mn.cookies # << >>

\* C17: the token returned is the piece after the first delimiter of the
\* first WorkosCursorSessionToken cookie (BBB for AAA%3A%3ABBB), never the
\* piece before it, never a value without the delimiter, and never a piece
\* of a cookie of another name.
C17_TokenIsSecondPiece ==
    TokenReturned =>
        /\ Named(mn.cookies) # {}
        /\ Len(FirstNamed(mn.cookies).segments) >= 2
        /\ mn.token = FirstNamed(mn.cookies).segments[2]
        /\ mn.token # FirstNamed(mn.cookies).segments[1]
        /\ mn.cookies[1] = Cookie(CookieName, << "AAA", "BBB" >>)
              => mn.token = "BBB"
        /\ mn.token \notin { "XXX", "YYY", "ZZZ" }

C17_Witness ==
    /\ TokenReturned
    /\ mn.cookies = << Cookie("other", << "XXX", "YYY" >>),
                       Cookie(CookieName, << "AAA", "BBB" >>) >>
    /\ mn.token = "BBB"

\* C18: the acquirer reads the cookies at most max_attempts times, sleeps
\* after a failed read only while attempts remain, and after max_attempts
\* failed reads the run ends with no token, no update_auth call, no
\* accounts row and no reset of the machine ids.
C18_TokenAttemptsBounded ==
    /\ mn.attempts <= mn.max_attempts
    /\ mn.backoffs =
          IF mn.attempts < mn.max_attempts THEN mn.attempts
          ELSE mn.max_attempts - 1
    /\ mn.outcome = "no_token" =>
          /\ mn.token = None => mn.attempts = mn.max_attempts
          /\ calls = 0
          /\ log = NoLog
          /\ file = file0
          /\ \A r \in runs : rm[r].pc = "idle"

C18_Witness ==
    /\ mn.outcome = "no_token"
    /\ mn.token = None
    /\ mn.attempts = TokenMaxAttempts
    /\ mn.backoffs = TokenMaxAttempts - 1
    /\ su.ret = "True"

\* the run is a registration run (modes 2 to 4), not the reset-only mode
RegistrationRun == mn.choice \in 2..4

TokenStarted ==
    \/ mn.pc \in {"token", "csv", "auth", "reset", "reset_wait", "end"}
    \/ mn.outcome \in {"no_token", "completed"}

ResetStarted == \E r \in runs : rm[r].pc # "idle"

\* C19: in a registration run get_cursor_session_token starts only after
\* sign_up_account returned True, update_auth is called only with a token
\* obtained (and sign_up_account and the acquirer finished), and
\* reset_machine_ids starts only after update_auth has returned.
C19_StepsInOrder ==
    RegistrationRun =>
        /\ TokenStarted => (su.pc = "done" /\ su.ret = "True")
        /\ su.pc \notin {"idle", "done"} => mn.pc = "signup"
        /\ calls > 0 =>
              /\ mn.token \notin {None, ""}
              /\ mn.pc \notin {"signup", "token", "csv", "auth"}
        /\ ResetStarted =>
              /\ calls = 1
              /\ Called
              /\ mn.pc \in {"reset_wait", "end", "done"}

C19_Witness ==
    /\ RegistrationRun
    /\ \A r \in runs : rm[r].pc = "done"
    /\ Called
    /\ mn.outcome = "completed"

\* C20: once update_auth has returned False in a registration run, the
\* machine ids are not reset and the run does not end as completed.
C20_PersistFailureTerminal ==
    (RegistrationRun /\ last.ret = "False") =>
        /\ ~ResetStarted
        /\ mn.pc \notin {"reset_wait", "end"}
        /\ mn.outcome # "completed"

\* the machine ids of the identity file all differ from what they were
IdsRotated ==
    /\ file.exists
    /\ \A k \in IdentityKeys :
          /\ HasKey(json_load(file.text), k)
          /\ ~(file0.exists /\ json_load_ok(file0.text)
                /\ HasKey(json_load(file0.text), k)
                /\ ValueOf(json_load(file0.text), k)
                      = ValueOf(json_load(file.text), k))

\* C21: a run that has ended with a row in the accounts log ended as
\* completed with update_auth returning True, and a run that ended
\* otherwise left no row.
C21_LogRowOnlyOnSuccess ==
    (mn.pc = "done" /\ log.rows > 0) =>
        /\ mn.outcome = "completed"
        /\ last.ret = "True"

\* C23: after a registration run that ended as completed with the
\* credentials stored, the four machine ids of the identity file differ
\* from their values before the run.
C23_IdsRotatedAfterSuccess ==
    (RegistrationRun /\ mn.outcome = "completed" /\ last.ret = "True")
        => IdsRotated

\* run r has read the identity file and has not finished writing it
InRotation(r) == rm[r].pc \in {"generate", "open_w", "dump"}

\* C22: two runs are never both between their read and the end of their
\* write of the identity file.
C22_RotationSerialized ==
    \A r1 \in runs, r2 \in runs :
        r1 # r2 => ~(InRotation(r1) /\ InRotation(r2))

\* the store holds key, and only with this value
Stored(key, value) ==
    /\ RowsOf(db, key) # {}
    /\ \A i \in RowsOf(db, key) : db[i].value = value

C25_NewestTenFirst ==
    /\ Len(im.examined) <= ScanLimit
    /\ \A j \in 1..Len(im.examined) : im.examined[j] = im.n - j + 1
    /\ (im.pc = "ret" /\ im.result # None /\ ~im.fault) =>
          \A j \in im.examined[Len(im.examined)]..(im.n - 1) :
              message_code(mailbox[j]) = None

C25_Witness ==
    /\ im.pc = "ret"
    /\ im.n > ScanLimit
    /\ Len(im.examined) = ScanLimit
    /\ im.result # None
    /\ ~im.fault

\* C26: a code returned, and a message marked deleted, come from a message
\* whose 'to' holds the account and whose 'from' holds the sender marker.
C26_OnlyMatchingTaken ==
    /\ (im.result # None \/ im.deleted > 0) => Len(im.taken) = 1
    /\ \A j \in 1..Len(im.taken) :
          /\ Contains(im.taken[j].to, Account)
          /\ Contains(im.taken[j].from, SenderMarker)

\* a newer message for another recipient was passed over, the code of the
\* older matching message returned
C26_Witness ==
    /\ im.pc = "ret"
    /\ im.result # None
    /\ im.deleted = 1
    /\ Len(im.examined) = 2
    /\ Len(mailbox) = 1
    /\ ~Contains(mailbox[1].to, Account)
    /\ code_search(extract_imap_body(mailbox[1])) # None

\* C27: a poll that returns a code has marked exactly one message deleted
\* in its last pass, the one the code came from, and closed its
\* connection; a poll that returns no code has marked none.
C27_DeletedExactlyOnCode ==
    (gv.pc = "done" /\ ~gv.raised) =>
        /\ gv.ret # None =>
              /\ im.deleted = 1
              /\ Len(im.taken) = 1
              /\ im.open = 0
        /\ gv.ret = None => im.deleted = 0

\* C28: a fetch that raised an error which is not connection-fatal only
\* skips its message: the pass goes on to every remaining candidate, and
\* returns a code when one of them holds one.
C28_FetchErrorSkipsOne ==
    (im.pc = "ret" /\ im.cause = "fetch") =>
        /\ Len(im.examined) = Min(ScanLimit, im.n)
        /\ (\E j \in 1..(im.n - Len(im.examined)) :
               j > im.n - ScanLimit /\ message_code(mailbox[j]) # None)
             => im.result # None

\* C29: after a connection-fatal error of a fetch the poll ends at once,
\* by raising: the pass returns to the poller, which starts no round.
C29_FatalFetchAbortsPoll ==
    (gv.fatal \/ (im.pc = "ret" /\ im.cause = "fatal")) =>
        \/ gv.pc = "inner" /\ im.pc = "ret"
        \/ gv.pc = "done" /\ gv.raised

\* C30: the code taken from a body is its first run of six digits that has
\* no letter, '@', '.' or digit directly before it or directly after it,
\* and no code is taken from a body without such a run.
C30_CodeHasFreeNeighbours ==
    LET Bad(c) == c \in Letters \/ c \in Digits \/ c = "@" \/ c = "."
        Free(b, p) ==
            /\ p + 5 <= Len(b)
            /\ \A q \in p..(p + 5) : b[q] \in Digits
            /\ p = 1 \/ ~Bad(b[p - 1])
            /\ p + 5 = Len(b) \/ ~Bad(b[p + 6])
        Runs(b) == { p \in 1..Len(b) : Free(b, p) }
        First(b) == CHOOSE p \in Runs(b) : \A q \in Runs(b) : p <= q
    IN  /\ im.result # None =>
              LET b == extract_imap_body(im.taken[1])
              IN  Runs(b) # {} /\ im.result = SubSeq(b, First(b), First(b) + 5)
        /\ (im.pc = "ret" /\ im.result = None /\ ~im.fault /\ im.n = 1) =>
              Runs(extract_imap_body(mailbox[1])) = {}

\* C31: a round makes at most InnerRetryLimit retries, with one sleep
\* before each; a round that used them all ends with None, after which the
\* poller goes on to its next round, or on its last round returns None
\* without raising.
C31_InnerExhaustionEndsRound ==
    /\ im.retry <= InnerRetryLimit
    /\ im.conns <= InnerRetryLimit
    /\ im.sleeps = IF im.pc = "enter" /\ im.retry > 0 THEN im.retry - 1
                   ELSE im.retry
    /\ (im.pc = "ret" /\ im.retry = InnerRetryLimit /\ ~im.fault) =>
          im.result = None
    /\ (im.pc = "idle" /\ im.retry = InnerRetryLimit /\ ~gv.last_raised) =>
          \/ gv.pc = "round" /\ gv.attempt < gv.max_retries
          \/ /\ gv.pc = "done"
             /\ gv.attempt = gv.max_retries - 1
             /\ gv.ret = None
             /\ ~gv.raised

\* a round used every retry on an empty mailbox and another round began
C31_Witness ==
    /\ im.pc = "idle"
    /\ im.retry = InnerRetryLimit
    /\ im.sleeps = InnerRetryLimit
    /\ ~im.fault
    /\ gv.pc = "round"
    /\ gv.attempt = 1
    /\ gv.rounds = 1

\* C32: in an attempt that found no widget and whose look at the page found
\* a success marker, handle_turnstile returns True in that attempt, and the
\* attempt made no click.
C32_AbsentWidgetMarkerSucceeds ==
    (ts.lookup = "absent" /\ ts.seen = "marker") =>
        /\ ts.pc = "done"
        /\ ts.ret = "True"
        /\ ~ts.clicked
        /\ ts.retry_count = 1 => ts.clicks = 0

C32_Witness ==
    /\ ts.pc = "done"
    /\ ts.ret = "True"
    /\ ts.lookup = "absent"
    /\ ts.seen = "marker"
    /\ ts.retry_count = 1
    /\ ts.clicks = 0

\* C33 as stated: handle_turnstile never ends by raising.
C33_AttemptExceptionNeverPropagates ==
    ts.pc = "done" => ts.ret \in {"True", "False"}

\* C33, amended: an exception caught in the try block of an attempt costs
\* that attempt only, and the handler still makes max_retries attempts
\* before it returns False; it ends by raising only when the look at the
\* page that follows the try block raised.
C33_OnlyRecheckExceptionPropagates ==
    /\ ts.caught <= ts.retry_count
    /\ (ts.pc = "done" /\ ts.ret = "raised") => ts.seen = "raise"
    /\ (ts.pc = "done" /\ ts.ret = "False") =>
          ts.retry_count = ts.max_retries

\* the first attempt raised in its try block, the second one succeeded
C33_Witness ==
    /\ ts.pc = "done"
    /\ ts.ret = "True"
    /\ ts.caught = 1
    /\ ts.retry_count = 2

\* C34: whether a capture fails, and whether one has failed before, changes
\* nothing but the record of it: from every reachable frame, for every
\* behaviour of the page, the next frame is the same in all other fields.
C34_CaptureNeverMatters ==
    LET Strip(f) == [f EXCEPT !.shot_failed = FALSE]
        Flip(f) == [f EXCEPT !.shot_failed = ~@]
    IN  /\ \A lookup \in Probes, click \in {"ok", "raise"}, status \in Statuses :
              /\ Strip(ts_try(ts, lookup, click, status, TRUE))
                   = Strip(ts_try(ts, lookup, click, status, FALSE))
              /\ Strip(ts_try(Flip(ts), lookup, click, status, TRUE))
                   = Strip(ts_try(ts, lookup, click, status, TRUE))
        /\ \A status \in Statuses :
              /\ Strip(ts_check(ts, status, TRUE))
                   = Strip(ts_check(ts, status, FALSE))
              /\ Strip(ts_check(Flip(ts), status, TRUE))
                   = Strip(ts_check(ts, status, TRUE))

\* captures failed, and the handler returned True at its second attempt
C34_Witness ==
    /\ ts.pc = "done"
    /\ ts.shot_failed
    /\ ts.ret = "True"
    /\ ts.clicks = 2
    /\ ts.retry_count = 2

\* C35: when opening the settings page or reading the usage figure failed,
\* sign_up_account still returns True.
C35_UsageFailureNonFatal ==
    (su.pc = "done" /\ su.usage \in {"failed", "nav_failed"}) =>
        su.ret = "True"

\* C36: when the identity file exists and is readable and writable but
\* does not hold a complete JSON object, reset never opens it for writing,
\* leaves it as it was and returns False.
C36_UnparsableFileUntouched ==
    \A r \in runs :
        (FileUsable(file0) /\ ~(json_load_ok(file0.text) /\ file0.text.object)) =>
            /\ file = file0
            /\ rm[r].pc \notin {"open_w", "dump"}
            /\ rm[r].pc = "done" => rm[r].ret = "False"

\* reset has returned False on a file that holds a JSON document which is
\* not an object
C36_Witness ==
    \E r \in runs :
        /\ ResetReturned(r, "False")
        /\ FileUsable(file0)
        /\ json_load_ok(file0.text)
        /\ ~file0.text.object
        /\ rm[r].read_ok

\* C37: when a pass has returned, every connection it opened has been
\* logged out.
C37_ConnectionsLoggedOut ==
    im.pc \in {"ret", "idle"} => im.open = 0

\* C38: after a successful update_auth no cursorAuth key holds a null, and
\* the key of an omitted argument holds what it held before the call.
C38_NoNullStored ==
    last.ret = "True" =>
        /\ \A i \in 1..Len(db) : db[i].key \in AuthKeys => db[i].value # None
        /\ \A f \in { << KeyEmail, last.args.email >>,
                      << KeyAccessToken, last.args.access_token >>,
                      << KeyRefreshToken, last.args.refresh_token >> } :
              f[2] = None =>
                  { db[i] : i \in RowsOf(db, f[1]) }
                      = { db0[i] : i \in RowsOf(db0, f[1]) }

----------------------------------------------------------------------------
(* Claims about the local address list                                     *)

\* C39: an address that generate_email returned is no longer the first
\* line of the file, no two calls return the same entry, and a call that
\* found the list empty ends without having written the file.
C39_AddressHandedOutOnce ==
    /\ \A r \in DOMAIN eg :
          eg[r].pc = "done" =>
              emails.lines = << >> \/ emails.lines[1] # eg[r].ret
    /\ \A r1, r2 \in DOMAIN eg :
          (r1 # r2 /\ eg[r1].pc = "done" /\ eg[r2].pc = "done") =>
              eg[r1].ret # eg[r2].ret
    /\ \A r \in DOMAIN eg :
          (eg[r].pc = "exited" /\ eg[r].lines = << >>) => ~eg[r].wrote

\* C40: with choice 1 or 3 at the menu, sign_up_account is never called,
\* update_auth is never called and no row is added to accounts.csv.
C40_OnlyFullModesRegister ==
    mn.choice \in {1, 3} =>
        /\ su.pc = "idle"
        /\ mn.pc \notin {"signup", "token"}
        /\ calls = 0
        /\ log.rows = 0

============================================================================
